---- MODULE Spec2Model ----
(***************************************************************************)
(* Model of the DCDTNFTAddURI builtin function of the VM test harness      *)
(* (chain/vm/src/tx_execution/builtin_function_mocks/dcdt_nft/             *)
(* dcdt_nft_add_uri_mock.rs) together with the transaction cache and the   *)
(* dispatcher that drives it (specification Spec); of the numeric wire     *)
(* encoding (SpecCodec); of CallValueWrapper (SpecCallValue); of the Tx    *)
(* builder (SpecTx); and of the digital-cash contract (SpecCash).          *)
(***************************************************************************)
EXTENDS Integers, Sequences, FiniteSets, TLC

VARIABLES
    store,      \* the backing Account Store: address -> account
    cache,      \* the overlay of the open transaction's cache
    phase,      \* "idle", "in_tx", or "aborted" after a panic
    calls,      \* execute calls made so far
    appended,   \* URI arguments passed so far
    txs,        \* transactions begun so far
    last,       \* the latest execute call of the open transaction
    expected,   \* history: per (address, key) the prior URIs followed by
                \* the URI arguments of the successful calls, in call order
    written,    \* history: the appends of the open transaction
    tx_store,   \* history: the store as it was when the transaction began
    codec,      \* the numeric encoding: a value, its bytes, the value decoded
    cv,         \* CallValueWrapper: the call value and the latest call
    txb,        \* the Tx under construction and the steps that built it
    dc          \* the digital-cash contract's storage and latest call

\* the variables of DCDTNftAddUri and its dispatcher
addUriVars ==
    <<store, cache, phase, calls, appended, txs, last, expected, written,
      tx_store>>

vars == <<addUriVars, codec, cv, txb, dc>>

(***************************************************************************)
(* Bounds of the model.                                                    *)
(***************************************************************************)
\* number of values a byte takes in the model (256 in the program)
ByteBase == 4
\* most URI arguments of one call
MaxUris == 2
\* most execute calls of one behaviour
MaxCalls == 2
\* most top-level transactions of one behaviour
MaxTxs == 2
\* most URI arguments of all the calls of one behaviour
MaxAppended == 3

\* width of a u64 in bytes
U64Bytes == 8
\* the numeric encoding is run on the values up to this one and on the
\* values around every power of ByteBase
MaxSmallValue == 300

Addresses == {"alice", "bob"}
Tokens == {<<1, 2>>}
Uris == {<<1>>, <<2>>}

\* nonce arguments: empty (0), 1 with a leading zero byte, nine bytes that do
\* not fit a u64
NonceArgs == { <<>>, <<0, 1>>, <<1, 0, 0, 0, 0, 0, 0, 0, 0>> }

RECURSIVE Pow(_, _)
Pow(b, e) == IF e = 0 THEN 1 ELSE b * Pow(b, e - 1)

\* value of a big-endian byte string
RECURSIVE from_bytes_be(_)
from_bytes_be(bytes) ==
    IF Len(bytes) = 0 THEN 0
    ELSE from_bytes_be(SubSeq(bytes, 1, Len(bytes) - 1)) * ByteBase
         + bytes[Len(bytes)]

\* the result of a decode that has no u64 to return
DecodeFault == -1

\* top_decode_u64: the big-endian value, when it fits 64 bits
top_decode_u64(bytes) ==
    LET v == from_bytes_be(bytes)
    IN IF v < Pow(ByteBase, U64Bytes) THEN v ELSE DecodeFault

top_encode_u64_fixed_width(value) ==
    [i \in 1..U64Bytes |-> (value \div Pow(ByteBase, U64Bytes - i)) % ByteBase]

\* top_encode_u64: minimal big-endian bytes, zero is the empty buffer
RECURSIVE top_encode_u64(_)
top_encode_u64(value) ==
    IF value = 0 THEN <<>>
    ELSE Append(top_encode_u64(value \div ByteBase), value % ByteBase)

(***************************************************************************)
(* Accounts, the account store and the transaction cache.                  *)
(***************************************************************************)
\* an account holds a map from (token identifier, nonce) to a holding's URIs
EmptyAccount == [dcdt |-> <<>>]

HasKey(f, k) == k \in DOMAIN f

\* Account.dcdt.add_uris: locate or create the holding, append the URIs
add_uris(dcdt, token_identifier, nonce, uris) ==
    LET key == <<token_identifier, nonce>>
        old == IF HasKey(dcdt, key) THEN dcdt[key] ELSE <<>>
    IN [k \in (DOMAIN dcdt) \cup {key} |->
            IF k = key THEN old \o uris ELSE dcdt[k]]

\* TxCache read: the overlay entry if present, else the store's account,
\* else a fresh account
read(tx_cache, source, address) ==
    IF address \in DOMAIN tx_cache THEN tx_cache[address]
    ELSE IF address \in DOMAIN source THEN source[address]
    ELSE EmptyAccount

\* TxCache::with_account_mut: the overlay entry of the address, created on
\* first access, becomes the account as the closure edited it
with_account_mut(tx_cache, address, edited) ==
    [a \in (DOMAIN tx_cache) \cup {address} |->
        IF a = address THEN edited ELSE tx_cache[a]]

\* BlockchainUpdate::empty
BlockchainUpdate_empty == [accounts |-> <<>>]

\* TxCache::into_blockchain_updates: every overlay entry
into_blockchain_updates(tx_cache) == [accounts |-> tx_cache]

\* BlockchainUpdate::apply: every account of the update replaces the store's
apply(update, source) ==
    [a \in (DOMAIN source) \cup (DOMAIN update.accounts) |->
        IF a \in DOMAIN update.accounts THEN update.accounts[a]
        ELSE source[a]]

(***************************************************************************)
(* Results and logs.                                                       *)
(***************************************************************************)
DCDT_NFT_ADD_URI_FUNC_NAME == "DCDTNFTAddURI"

\* TxResult::from_vm_error
from_vm_error(message) ==
    [result_status |-> "ExecutionFailed",
     result_message |-> message,
     result_logs |-> <<>>]

\* the value standing for "no result" when execute did not return
NoResult ==
    [result_status |-> "None", result_message |-> "", result_logs |-> <<>>]

(***************************************************************************)
(* DCDTNftAddUri                                                           *)
(***************************************************************************)
name == DCDT_NFT_ADD_URI_FUNC_NAME

too_few_args_lt2(args) == Len(args) < 2

\* line 29: the arity check
too_few_args(args) == Len(args) < 3

new_uris_first_only(args) == SubSeq(args, 3, 3)

\* line 36: tx_input.args[2..]
new_uris(args) == SubSeq(args, 3, Len(args))

mutated_address_to(tx_input) == tx_input.to

\* line 38: the account handed to with_account_mut
mutated_address(tx_input) == tx_input.from

topics_no_value(token_identifier, nonce, uris) ==
    <<token_identifier, top_encode_u64(nonce)>> \o uris

\* lines 44-49: the log's topics
topics(token_identifier, nonce, uris) ==
    <<token_identifier, top_encode_u64(nonce), <<>>>> \o uris

dcdt_nft_create_log_wrong_endpoint(tx_input, tpcs) ==
    [address |-> tx_input.from,
     endpoint |-> "DCDTNFTCreate",
     topics |-> tpcs,
     data |-> <<>>]

\* lines 50-55: the log
dcdt_nft_create_log(tx_input, tpcs) ==
    [address |-> tx_input.from,
     endpoint |-> DCDT_NFT_ADD_URI_FUNC_NAME,
     topics |-> tpcs,
     data |-> <<>>]

\* lines 57-61: the success result
tx_result(log) ==
    [result_status |-> "Success",
     result_message |-> "",
     result_logs |-> <<log>>]

\* the effects of the early return, in order: _f is dropped uncalled
failure_events == <<"drop_f">>

success_events_f_first ==
    <<"call_f", "with_account_mut", "into_blockchain_updates">>

\* the effects of the success path, in order: _f is dropped uncalled when
\* execute returns
success_events == <<"with_account_mut", "into_blockchain_updates", "drop_f">>

execute_stale_update(tx_input, tx_cache, source) ==
    IF too_few_args(tx_input.args)
    THEN [outcome |-> "returned",
          result |-> from_vm_error("DCDTNFTAddURI expects at least 3 arguments"),
          update |-> BlockchainUpdate_empty,
          cache |-> tx_cache,
          events |-> failure_events]
    ELSE
        LET token_identifier == tx_input.args[1]
            nonce == top_decode_u64(tx_input.args[2])
            uris == new_uris(tx_input.args)
            account == read(tx_cache, source, mutated_address(tx_input))
            edited ==
                [account EXCEPT
                    !.dcdt = add_uris(@, token_identifier, nonce, uris)]
            cache2 == with_account_mut(tx_cache, mutated_address(tx_input),
                                       edited)
            log == dcdt_nft_create_log(tx_input,
                                       topics(token_identifier, nonce, uris))
        IN IF nonce = DecodeFault
           THEN [outcome |-> "panicked",
                 result |-> NoResult,
                 update |-> BlockchainUpdate_empty,
                 cache |-> tx_cache,
                 events |-> <<"panic", "drop_f">>]
           ELSE [outcome |-> "returned",
                 result |-> tx_result(log),
                 update |-> into_blockchain_updates(tx_cache),
                 cache |-> cache2,
                 events |-> success_events]

\* DCDTNftAddUri::execute. The value has the outcome ("returned" or
\* "panicked"), the returned pair, the cache as execute leaves it and the
\* effects in order.
execute(tx_input, tx_cache, source) ==
    IF too_few_args(tx_input.args)
    THEN [outcome |-> "returned",
          result |-> from_vm_error("DCDTNFTAddURI expects at least 3 arguments"),
          update |-> BlockchainUpdate_empty,
          cache |-> tx_cache,
          events |-> failure_events]
    ELSE
        LET token_identifier == tx_input.args[1]
            nonce == top_decode_u64(tx_input.args[2])
            uris == new_uris(tx_input.args)
            account == read(tx_cache, source, mutated_address(tx_input))
            edited ==
                [account EXCEPT
                    !.dcdt = add_uris(@, token_identifier, nonce, uris)]
            cache2 == with_account_mut(tx_cache, mutated_address(tx_input),
                                       edited)
            log == dcdt_nft_create_log(tx_input,
                                       topics(token_identifier, nonce, uris))
        IN IF nonce = DecodeFault
           THEN [outcome |-> "panicked",
                 result |-> NoResult,
                 update |-> BlockchainUpdate_empty,
                 cache |-> tx_cache,
                 events |-> <<"panic", "drop_f">>]
           ELSE [outcome |-> "returned",
                 result |-> tx_result(log),
                 update |-> into_blockchain_updates(cache2),
                 cache |-> cache2,
                 events |-> success_events]

(***************************************************************************)
(* The dispatcher.                                                         *)
(***************************************************************************)
UriSeqs == UNION { [1..n -> Uris] : n \in 1..MaxUris }

ArgLists ==
    {<<>>}
    \cup { <<t>> : t \in Tokens }
    \cup { <<t, n>> : t \in Tokens, n \in NonceArgs }
    \cup { <<t, n>> \o us : t \in Tokens, n \in NonceArgs, us \in UriSeqs }

TxInputs == [from : Addresses, to : Addresses, args : ArgLists]

\* no account at all; or alice with one holding and bob with none
InitStores ==
    { <<>>,
      [a \in Addresses |->
        IF a = "alice"
        THEN [dcdt |-> [k \in {<< <<1, 2>>, 1 >>} |-> << <<1>> >>]]
        ELSE EmptyAccount] }

NoInput == [from |-> "alice", to |-> "alice", args |-> <<>>]

NoCall ==
    [called |-> FALSE, tx_input |-> NoInput, pre_cache |-> <<>>,
     outcome |-> "none", result |-> NoResult,
     update |-> BlockchainUpdate_empty, events |-> <<>>]

Keys == Tokens \X (0..1)

\* the URIs a reader of the store sees for every (address, key)
View(tx_cache, source) ==
    [a \in Addresses |->
        [k \in Keys |->
            LET acc == read(tx_cache, source, a)
            IN IF HasKey(acc.dcdt, k) THEN acc.dcdt[k] ELSE <<>>]]

\* the values of the other components' variables while they are not running
NoCodec == [stage |-> "off"]
NoCallValue == [stage |-> "off"]
NoTx == [stage |-> "off"]
NoCash == [stage |-> "off"]

Init ==
    /\ store \in InitStores
    /\ cache = <<>>
    /\ phase = "idle"
    /\ calls = 0
    /\ appended = 0
    /\ txs = 0
    /\ last = NoCall
    /\ expected = View(<<>>, store)
    /\ written = {}
    /\ tx_store = store
    /\ codec = NoCodec
    /\ cv = NoCallValue
    /\ txb = NoTx
    /\ dc = NoCash

\* the dispatcher starts a transaction with a fresh cache over the store
BeginTx ==
    /\ phase = "idle"
    /\ txs < MaxTxs
    /\ phase' = "in_tx"
    /\ cache' = <<>>
    /\ txs' = txs + 1
    /\ last' = NoCall
    /\ written' = {}
    /\ tx_store' = store
    /\ UNCHANGED <<store, calls, appended, expected>>
    /\ UNCHANGED <<codec, cv, txb, dc>>

\* one call of execute on the transaction's cache
Execute ==
    /\ phase = "in_tx"
    /\ calls < MaxCalls
    /\ \E tx_input \in TxInputs :
        LET r == execute(tx_input, cache, store)
            ok == r.outcome = "returned" /\ r.result.result_status = "Success"
            key == <<tx_input.args[1], from_bytes_be(tx_input.args[2])>>
            n_uris == IF Len(tx_input.args) > 2
                      THEN Len(tx_input.args) - 2 ELSE 0
        IN /\ appended + n_uris <= MaxAppended
           /\ appended' = appended + n_uris
           /\ last' = [called |-> TRUE, tx_input |-> tx_input,
                       pre_cache |-> cache, outcome |-> r.outcome,
                       result |-> r.result, update |-> r.update,
                       events |-> r.events]
           /\ cache' = r.cache
           /\ phase' = IF r.outcome = "panicked" THEN "aborted" ELSE "in_tx"
           /\ expected' =
                IF ok
                THEN [expected EXCEPT ![tx_input.from][key] =
                        @ \o SubSeq(tx_input.args, 3, Len(tx_input.args))]
                ELSE expected
           /\ written' =
                IF ok
                THEN written \cup
                        {[address |-> tx_input.from, key |-> key,
                          uris |-> SubSeq(tx_input.args, 3,
                                          Len(tx_input.args))]}
                ELSE written
    /\ calls' = calls + 1
    /\ UNCHANGED <<store, txs, tx_store>>
    /\ UNCHANGED <<codec, cv, txb, dc>>

\* the dispatcher commits the update of a successful call to the store
Commit ==
    /\ phase = "in_tx"
    /\ last.called
    /\ last.result.result_status = "Success"
    /\ store' = apply(last.update, store)
    /\ cache' = <<>>
    /\ phase' = "idle"
    /\ last' = NoCall
    /\ written' = {}
    /\ tx_store' = store'
    /\ UNCHANGED <<calls, appended, txs, expected>>
    /\ UNCHANGED <<codec, cv, txb, dc>>

\* the dispatcher drops the cache: nothing reaches the store
Discard ==
    /\ phase \in {"in_tx", "aborted"}
    /\ cache' = <<>>
    /\ phase' = "idle"
    /\ expected' = View(<<>>, store)
    /\ last' = NoCall
    /\ written' = {}
    /\ UNCHANGED <<store, calls, appended, txs, tx_store>>
    /\ UNCHANGED <<codec, cv, txb, dc>>

Next == BeginTx \/ Execute \/ Commit \/ Discard

Spec == Init /\ [][Next]_vars

(***************************************************************************)
(* Properties of DCDTNftAddUri::execute.                                   *)
(***************************************************************************)
Args == last.tx_input.args
Succeeded == last.called /\ last.outcome = "returned"
             /\ last.result.result_status = "Success"
Failed == last.called /\ last.outcome = "returned"
          /\ last.result.result_status # "Success"
EmptyUpdate == DOMAIN last.update.accounts = {}

\* C1: a call with fewer than 3 arguments returns a failure result with the
\* message "DCDTNFTAddURI expects at least 3 arguments" and an empty update,
\* and leaves the cache overlay and the store as they were.
C1_ArityFailure ==
    (last.called /\ Len(Args) < 3) =>
        /\ last.outcome = "returned"
        /\ last.result.result_status = "ExecutionFailed"
        /\ last.result.result_message
              = "DCDTNFTAddURI expects at least 3 arguments"
        /\ EmptyUpdate
        /\ cache = last.pre_cache
        /\ store = tx_store

\* a two-argument call (token and nonce, no URI) on a cache that already
\* holds a mutation
C1_Witness ==
    /\ last.called /\ Len(Args) = 2
    /\ last.result.result_status = "ExecutionFailed"
    /\ DOMAIN last.pre_cache # {}

\* C2: every call of execute returns one of two outcomes, a failure result
\* with an empty update or a success result with a non-empty update.
C2_Atomicity ==
    last.called =>
        \/ (Failed /\ EmptyUpdate)
        \/ (Succeeded /\ ~EmptyUpdate)

\* C3: the URIs of every holding, read through the cache, are the prior URIs
\* followed by the URI arguments of every successful call on that holding in
\* call order and argument order.
C3_AppendOnly ==
    \A a \in Addresses : \A k \in Keys :
        View(cache, store)[a][k] = expected[a][k]

\* two successful calls by bob on the same holding, URIs <<2, 1>> then <<1>>
C3_Witness ==
    /\ Succeeded
    /\ last.tx_input.from = "bob"
    /\ calls = 2
    /\ View(cache, store)["bob"][<< <<1, 2>>, 0 >>] = << <<2>>, <<1>>, <<1>> >>

\* C4: the log of a successful call with arguments <<T, nonce, u1, .., uk>>
\* has the topics <<T, the minimal encoding of the decoded nonce, the empty
\* buffer, u1, .., uk>> and empty data.
C4_LogShape ==
    Succeeded =>
        /\ Len(last.result.result_logs) >= 1
        /\ LET log == last.result.result_logs[1]
               t == log.topics
           IN /\ Len(t) = Len(Args) + 1
              /\ Len(Args) >= 3
              /\ t[1] = Args[1]
              /\ from_bytes_be(t[2]) = from_bytes_be(Args[2])
              /\ (t[2] = <<>> \/ t[2][1] # 0)
              /\ t[3] = <<>>
              /\ \A i \in 3..Len(Args) : t[i + 1] = Args[i]
              /\ log.data = <<>>

\* a successful call whose nonce argument has a leading zero byte, with two
\* URIs
C4_Witness ==
    /\ Succeeded
    /\ Args[2] = <<0, 1>>
    /\ Len(Args) = 4
    /\ Args[3] # Args[4]

\* C5: a successful call returns status Success with exactly one log, emitted
\* by the sender with the endpoint name(); a failed call carries no log.
C5_OneLog ==
    /\ Succeeded =>
        /\ Len(last.result.result_logs) = 1
        /\ last.result.result_logs[1].address = last.tx_input.from
        /\ last.result.result_logs[1].endpoint = name
    /\ Failed => last.result.result_logs = <<>>

\* a successful call whose sender is not its receiver
C5_Witness ==
    /\ Succeeded
    /\ last.tx_input.from # last.tx_input.to
    /\ Len(last.result.result_logs) = 1

\* the nonce argument does not encode a u64
MalformedNonce ==
    /\ Len(Args) >= 3
    /\ from_bytes_be(Args[2]) >= Pow(ByteBase, U64Bytes)

\* C6: a call with at least 3 arguments whose nonce argument is not a valid
\* u64 returns a failure result and an empty update and mutates no account.
C6_DecodeErrorRejected ==
    (last.called /\ MalformedNonce) =>
        /\ Failed
        /\ EmptyUpdate
        /\ cache = last.pre_cache
        /\ store = tx_store

\* C7: every call of execute returns a (result, update) pair; none panics.
C7_NeverPanics == last.called => last.outcome = "returned"

RECURSIVE Count(_, _)
Count(seq, e) ==
    IF seq = <<>> THEN 0
    ELSE (IF Head(seq) = e THEN 1 ELSE 0) + Count(Tail(seq), e)

IsInfix(s, t) ==
    \E i \in 0..(Len(t) - Len(s)) : SubSeq(t, i + 1, i + Len(s)) = s

C11_CommitWholeOrNothing ==
    [][ /\ phase # "idle" => store = tx_store
        /\ phase' # "idle" => store' = store
        /\ (last'.called /\ last'.outcome = "returned"
            /\ last'.result.result_status = "Success")
              => /\ last'.update.accounts = cache'
                 /\ last'.tx_input.from \in DOMAIN cache'
        /\ store' # store =>
              /\ Succeeded
              /\ DOMAIN store' =
                    (DOMAIN store) \cup (DOMAIN last.update.accounts)
              /\ \A a \in DOMAIN store' :
                    store'[a] = IF a \in DOMAIN last.update.accounts
                                THEN last.update.accounts[a]
                                ELSE store[a]
      ]_vars

\* one transaction committed an update of two accounts
C11_Witness ==
    /\ phase = "idle"
    /\ txs = 1
    /\ \A a \in Addresses :
          /\ a \in DOMAIN store
          /\ \E k \in DOMAIN store[a].dcdt : Len(store[a].dcdt[k]) >= 2

(***************************************************************************)
(* The numeric wire encoding on its own: a u64 is encoded, then decoded.   *)
(***************************************************************************)
\* the dispatcher's variables while another component runs
AddUriOff ==
    /\ store = <<>>
    /\ cache = <<>>
    /\ phase = "off"
    /\ calls = 0
    /\ appended = 0
    /\ txs = 0
    /\ last = NoCall
    /\ expected = <<>>
    /\ written = {}
    /\ tx_store = <<>>

U64Max == Pow(ByteBase, U64Bytes) - 1

U64Values ==
    (0..MaxSmallValue)
    \cup { Pow(ByteBase, k) - 1 : k \in 1..U64Bytes }
    \cup { Pow(ByteBase, k) : k \in 1..(U64Bytes - 1) }
    \cup { Pow(ByteBase, k) + 1 : k \in 1..(U64Bytes - 1) }

InitCodec ==
    /\ AddUriOff
    /\ codec \in { [stage |-> "value", n |-> v, bytes |-> <<>>, decoded |-> 0]
                    : v \in U64Values }
    /\ cv = NoCallValue
    /\ txb = NoTx
    /\ dc = NoCash

\* top_encode_u64(n)
Encode ==
    /\ codec.stage = "value"
    /\ codec' = [codec EXCEPT !.stage = "encoded",
                              !.bytes = top_encode_u64(codec.n)]
    /\ UNCHANGED <<addUriVars, cv, txb, dc>>

\* top_decode_u64 of the bytes
Decode ==
    /\ codec.stage = "encoded"
    /\ codec' = [codec EXCEPT !.stage = "decoded",
                              !.decoded = top_decode_u64(codec.bytes)]
    /\ UNCHANGED <<addUriVars, cv, txb, dc>>

NextCodec == Encode \/ Decode

SpecCodec == InitCodec /\ [][NextCodec]_vars

\* C12: the encoding of 0 is the empty buffer, the encoding of n > 0 is made
\* of bytes, at most eight of them, and has no leading zero byte, and decoding
\* the encoding of n gives n.
C12_RoundTrip ==
    /\ codec.stage \in {"encoded", "decoded"} =>
          /\ codec.n = 0 => codec.bytes = <<>>
          /\ codec.n > 0 => (codec.bytes # <<>> /\ codec.bytes[1] # 0)
          /\ Len(codec.bytes) <= U64Bytes
          /\ \A i \in 1..Len(codec.bytes) : codec.bytes[i] \in 0..(ByteBase - 1)
    /\ codec.stage = "decoded" => codec.decoded = codec.n

\* the largest u64 went through both conversions
C12_Witness ==
    /\ codec.stage = "decoded"
    /\ codec.n = U64Max
    /\ Len(codec.bytes) = U64Bytes

\* C13: a successful call on a sender that had no holding under (token
\* identifier, nonce) leaves a holding whose URIs are exactly the URI
\* arguments, and the returned update has the sender's account with it; so
\* too when the sender had no overlay entry or no account at all.
C13_LocateOrCreate ==
    LET from == last.tx_input.from
        key == <<Args[1], from_bytes_be(Args[2])>>
        before == read(last.pre_cache, tx_store, from)
        uris == SubSeq(Args, 3, Len(Args))
    IN (Succeeded /\ ~HasKey(before.dcdt, key)) =>
          /\ from \in DOMAIN cache
          /\ HasKey(cache[from].dcdt, key)
          /\ cache[from].dcdt[key] = uris
          /\ from \in DOMAIN last.update.accounts
          /\ HasKey(last.update.accounts[from].dcdt, key)
          /\ last.update.accounts[from].dcdt[key] = uris
          /\ \A k \in DOMAIN before.dcdt :
                /\ HasKey(cache[from].dcdt, k)
                /\ cache[from].dcdt[k] = before.dcdt[k]

\* the sender has no account in the store and no overlay entry, and the call
\* has two URIs
C13_Witness ==
    /\ Succeeded
    /\ last.tx_input.from \notin DOMAIN tx_store
    /\ last.tx_input.from \notin DOMAIN last.pre_cache
    /\ last.tx_input.from # last.tx_input.to
    /\ Len(Args) = 4

\* the sender has an account with another holding, and none under the key
C13_WitnessOtherHolding ==
    /\ Succeeded
    /\ last.tx_input.from \in DOMAIN tx_store
    /\ DOMAIN tx_store[last.tx_input.from].dcdt # {}
    /\ ~HasKey(read(last.pre_cache, tx_store, last.tx_input.from).dcdt,
               <<Args[1], from_bytes_be(Args[2])>>)

(***************************************************************************)
(* CallValueWrapper (framework/base/src/contract_base/wrappers/            *)
(* call_value_wrapper.rs).                                                 *)
(***************************************************************************)
\* most DCDT transfers of one call
MaxTransfers == 2
\* largest amount of MOA or of a token in one call
MaxAmount == 2

CvTokens == {"TOK-123456", "NFT-abcdef"}
CvNonces == {0, 1}

\* DcdtTokenPayment; the amount of a transfer is never 0
DcdtTokenPayments ==
    [token_identifier : CvTokens, token_nonce : CvNonces,
     amount : 1..MaxAmount]

TransferLists == UNION { [1..n -> DcdtTokenPayments] : n \in 0..MaxTransfers }

\* the call value the VM holds: MOA or DCDT transfers, never both
CallValues ==
    { [moa |-> m, transfers |-> <<>>] : m \in 0..MaxAmount }
    \cup { [moa |-> 0, transfers |-> t] : t \in TransferLists \ {<<>>} }

INCORRECT_NUM_DCDT_TRANSFERS == "incorrect number of DCDT transfers"
FUNGIBLE_TOKEN_EXPECTED_ERR_MSG == "fungible DCDT token expected"

\* MoaOrDcdtTokenIdentifier::moa() and MoaOrDcdtTokenIdentifier::dcdt(id)
MoaIdentifier == [kind |-> "moa", id |-> "MOA-000000"]
DcdtIdentifier(id) == [kind |-> "dcdt", id |-> id]

\* From<DcdtTokenPayment> for MoaOrDcdtTokenPayment
into_moa_or_dcdt_payment(p) ==
    [token_identifier |-> DcdtIdentifier(p.token_identifier),
     token_nonce |-> p.token_nonce,
     amount |-> p.amount]

\* the static variables and the managed values behind the two handles
StaticUninitialized ==
    [moa_handle |-> "UNINITIALIZED_HANDLE", moa_mem |-> 0,
     dcdt_handle |-> "UNINITIALIZED_HANDLE", dcdt_mem |-> <<>>]

\* what a wrapper method gives: the static variables as it leaves them and
\* either the value it returns or the error it halts with
Returned(st, value) ==
    [st |-> st, outcome |-> "returned", value |-> value, err |-> ""]
SignalError(st, msg) ==
    [st |-> st, outcome |-> "signal_error", value |-> <<>>, err |-> msg]

\* lines 36-45
moa_value(vm, st) ==
    IF st.moa_handle = "UNINITIALIZED_HANDLE"
    THEN Returned([st EXCEPT !.moa_handle = "CALL_VALUE_MOA",
                             !.moa_mem = vm.moa],
                  vm.moa)
    ELSE Returned(st, st.moa_mem)

\* lines 57-67
all_dcdt_transfers(vm, st) ==
    IF st.dcdt_handle = "UNINITIALIZED_HANDLE"
    THEN Returned([st EXCEPT !.dcdt_handle = "CALL_VALUE_MULTI_DCDT",
                             !.dcdt_mem = vm.transfers],
                  vm.transfers)
    ELSE Returned(st, st.dcdt_mem)

\* ManagedVec::to_array_of_refs::<N>: the items when there are exactly N
to_array_of_refs(vec, N) ==
    IF Len(vec) = N THEN [some |-> TRUE, array |-> vec]
    ELSE [some |-> FALSE, array |-> <<>>]

multi_dcdt_fungible_msg(vm, st, N) ==
    LET all == all_dcdt_transfers(vm, st)
        arr == to_array_of_refs(all.value, N)
    IN IF arr.some THEN Returned(all.st, arr.array)
       ELSE SignalError(all.st, FUNGIBLE_TOKEN_EXPECTED_ERR_MSG)

\* lines 74-80
multi_dcdt(vm, st, N) ==
    LET all == all_dcdt_transfers(vm, st)
        arr == to_array_of_refs(all.value, N)
    IN IF arr.some THEN Returned(all.st, arr.array)
       ELSE SignalError(all.st, INCORRECT_NUM_DCDT_TRANSFERS)

\* lines 87-90
single_dcdt(vm, st) ==
    LET r == multi_dcdt(vm, st, 1)
    IN IF r.outcome = "returned" THEN Returned(r.st, r.value[1]) ELSE r

single_fungible_dcdt_no_nonce_check(vm, st) ==
    LET r == single_dcdt(vm, st)
    IN IF r.outcome # "returned" THEN r
       ELSE Returned(r.st, <<r.value.token_identifier, r.value.amount>>)

\* lines 97-103
single_fungible_dcdt(vm, st) ==
    LET r == single_dcdt(vm, st)
    IN IF r.outcome # "returned" THEN r
       ELSE IF r.value.token_nonce # 0
       THEN SignalError(r.st, FUNGIBLE_TOKEN_EXPECTED_ERR_MSG)
       ELSE Returned(r.st, <<r.value.token_identifier, r.value.amount>>)

moa_or_single_dcdt_first_of_many(vm, st) ==
    LET all == all_dcdt_transfers(vm, st)
    IN IF Len(all.value) = 0
       THEN LET m == moa_value(vm, all.st)
            IN Returned(m.st, [token_identifier |-> MoaIdentifier,
                               token_nonce |-> 0,
                               amount |-> m.value])
       ELSE Returned(all.st, into_moa_or_dcdt_payment(all.value[1]))

\* lines 110-121
moa_or_single_dcdt(vm, st) ==
    LET all == all_dcdt_transfers(vm, st)
    IN IF Len(all.value) = 0
       THEN LET m == moa_value(vm, all.st)
            IN Returned(m.st, [token_identifier |-> MoaIdentifier,
                               token_nonce |-> 0,
                               amount |-> m.value])
       ELSE IF Len(all.value) = 1
       THEN Returned(all.st, into_moa_or_dcdt_payment(all.value[1]))
       ELSE SignalError(all.st, INCORRECT_NUM_DCDT_TRANSFERS)

\* lines 131-138
moa_or_single_fungible_dcdt(vm, st) ==
    LET r == moa_or_single_dcdt(vm, st)
    IN IF r.outcome # "returned" THEN r
       ELSE IF r.value.token_nonce # 0
       THEN SignalError(r.st, FUNGIBLE_TOKEN_EXPECTED_ERR_MSG)
       ELSE Returned(r.st, <<r.value.token_identifier, r.value.amount>>)

any_payment_single_as_moa(vm, st) ==
    LET all == all_dcdt_transfers(vm, st)
    IN IF Len(all.value) <= 1
       THEN LET m == moa_value(vm, all.st)
            IN Returned(m.st, [kind |-> "Moa", moa |-> m.value,
                               multi_dcdt |-> <<>>])
       ELSE Returned(all.st, [kind |-> "MultiDcdt", moa |-> 0,
                              multi_dcdt |-> all.value])

\* lines 143-150
any_payment(vm, st) ==
    LET all == all_dcdt_transfers(vm, st)
    IN IF Len(all.value) = 0
       THEN LET m == moa_value(vm, all.st)
            IN Returned(m.st, [kind |-> "Moa", moa |-> m.value,
                               multi_dcdt |-> <<>>])
       ELSE Returned(all.st, [kind |-> "MultiDcdt", moa |-> 0,
                              multi_dcdt |-> all.value])

\* a contract call begins: the VM holds the call value, nothing is loaded
InitCallValue ==
    /\ AddUriOff
    /\ codec = NoCodec
    /\ cv \in { [stage |-> "running", vm |-> v, st |-> StaticUninitialized,
                 fn |-> "none", n |-> 0, outcome |-> "none", value |-> <<>>,
                 err |-> ""] : v \in CallValues }
    /\ txb = NoTx
    /\ dc = NoCash

\* the contract calls a wrapper method; signal_error ends the execution
CvCall(fn, n, r) ==
    /\ cv' = [cv EXCEPT !.stage = IF r.outcome = "returned" THEN "running"
                                  ELSE "halted",
                        !.st = r.st, !.fn = fn, !.n = n,
                        !.outcome = r.outcome, !.value = r.value,
                        !.err = r.err]
    /\ UNCHANGED <<addUriVars, codec, txb, dc>>

CvMoaValue ==
    cv.stage = "running" /\ CvCall("moa_value", 0, moa_value(cv.vm, cv.st))

CvAllDcdtTransfers ==
    /\ cv.stage = "running"
    /\ CvCall("all_dcdt_transfers", 0, all_dcdt_transfers(cv.vm, cv.st))

CvMultiDcdt ==
    /\ cv.stage = "running"
    /\ \E N \in 1..(MaxTransfers + 1) :
          CvCall("multi_dcdt", N, multi_dcdt(cv.vm, cv.st, N))

CvSingleDcdt ==
    cv.stage = "running" /\ CvCall("single_dcdt", 1, single_dcdt(cv.vm, cv.st))

CvSingleFungibleDcdt ==
    /\ cv.stage = "running"
    /\ CvCall("single_fungible_dcdt", 1, single_fungible_dcdt(cv.vm, cv.st))

CvMoaOrSingleDcdt ==
    /\ cv.stage = "running"
    /\ CvCall("moa_or_single_dcdt", 0, moa_or_single_dcdt(cv.vm, cv.st))

CvMoaOrSingleFungibleDcdt ==
    /\ cv.stage = "running"
    /\ CvCall("moa_or_single_fungible_dcdt", 0,
              moa_or_single_fungible_dcdt(cv.vm, cv.st))

CvAnyPayment ==
    cv.stage = "running" /\ CvCall("any_payment", 0, any_payment(cv.vm, cv.st))

NextCallValue ==
    \/ CvMoaValue
    \/ CvAllDcdtTransfers
    \/ CvMultiDcdt
    \/ CvSingleDcdt
    \/ CvSingleFungibleDcdt
    \/ CvMoaOrSingleDcdt
    \/ CvMoaOrSingleFungibleDcdt
    \/ CvAnyPayment

SpecCallValue == InitCallValue /\ [][NextCallValue]_vars

CvTransfers == cv.vm.transfers
CvReturned == cv.outcome = "returned" /\ cv.stage = "running"
CvHalted(msg) == cv.outcome = "signal_error" /\ cv.stage = "halted" /\ cv.err = msg

\* C14: moa_or_single_dcdt gives (MOA identifier, nonce 0, the MOA call
\* value) when the call carries no DCDT transfer, the transfer itself when it
\* carries exactly one, and halts with the incorrect-number-of-transfers error,
\* returning nothing, when it carries two or more.
C14_MoaOrSingleDcdt ==
    cv.stage # "off" /\ cv.fn = "moa_or_single_dcdt" =>
        /\ Len(CvTransfers) = 0 =>
              /\ CvReturned
              /\ cv.value = [token_identifier |-> MoaIdentifier,
                             token_nonce |-> 0,
                             amount |-> cv.vm.moa]
        /\ Len(CvTransfers) = 1 =>
              /\ CvReturned
              /\ cv.value.token_identifier.kind = "dcdt"
              /\ cv.value.token_identifier.id = CvTransfers[1].token_identifier
              /\ cv.value.token_nonce = CvTransfers[1].token_nonce
              /\ cv.value.amount = CvTransfers[1].amount
        /\ Len(CvTransfers) >= 2 => CvHalted(INCORRECT_NUM_DCDT_TRANSFERS)

C14_Witness ==
    /\ cv.stage = "halted"
    /\ cv.fn = "moa_or_single_dcdt"
    /\ Len(CvTransfers) = 2
    /\ cv.err = INCORRECT_NUM_DCDT_TRANSFERS

\* C15: multi_dcdt::<N> (single_dcdt is N = 1) returns exactly when the call
\* carries N DCDT transfers, and then gives them in their original order;
\* with any other number it halts with the incorrect-number-of-transfers
\* error.
C15_ExactNumber ==
    /\ cv.stage # "off" /\ cv.fn = "multi_dcdt" =>
          IF Len(CvTransfers) = cv.n
          THEN CvReturned /\ cv.value = CvTransfers
          ELSE CvHalted(INCORRECT_NUM_DCDT_TRANSFERS)
    /\ cv.stage # "off" /\ cv.fn = "single_dcdt" =>
          IF Len(CvTransfers) = 1
          THEN CvReturned /\ cv.value = CvTransfers[1]
          ELSE CvHalted(INCORRECT_NUM_DCDT_TRANSFERS)

C15_Witness ==
    /\ cv.stage = "running"
    /\ cv.fn = "multi_dcdt"
    /\ cv.n = 2
    /\ Len(CvTransfers) = 2
    /\ CvTransfers[1] # CvTransfers[2]
    /\ cv.value = CvTransfers

\* C16: single_fungible_dcdt and moa_or_single_fungible_dcdt give a (token
\* identifier, amount) pair only for a payment of nonce 0; one transfer of
\* nonzero nonce halts with the fungible-token-expected error, more than one
\* transfer with the incorrect-number error, and moa_or_single_fungible_dcdt
\* without a transfer gives (MOA, the MOA call value).
C16_FungibleOnly ==
    /\ cv.stage # "off" /\ cv.fn = "single_fungible_dcdt" =>
          /\ CvReturned =>
                /\ Len(CvTransfers) = 1
                /\ CvTransfers[1].token_nonce = 0
                /\ cv.value = <<CvTransfers[1].token_identifier,
                                CvTransfers[1].amount>>
          /\ Len(CvTransfers) = 1 /\ CvTransfers[1].token_nonce # 0 =>
                CvHalted(FUNGIBLE_TOKEN_EXPECTED_ERR_MSG)
          /\ Len(CvTransfers) = 1 /\ CvTransfers[1].token_nonce = 0 =>
                CvReturned
          /\ Len(CvTransfers) > 1 => CvHalted(INCORRECT_NUM_DCDT_TRANSFERS)
    /\ cv.stage # "off" /\ cv.fn = "moa_or_single_fungible_dcdt" =>
          /\ Len(CvTransfers) = 0 =>
                CvReturned /\ cv.value = <<MoaIdentifier, cv.vm.moa>>
          /\ Len(CvTransfers) = 1 /\ CvTransfers[1].token_nonce = 0 =>
                /\ CvReturned
                /\ cv.value =
                     <<DcdtIdentifier(CvTransfers[1].token_identifier),
                       CvTransfers[1].amount>>
          /\ Len(CvTransfers) = 1 /\ CvTransfers[1].token_nonce # 0 =>
                CvHalted(FUNGIBLE_TOKEN_EXPECTED_ERR_MSG)
          /\ Len(CvTransfers) > 1 => CvHalted(INCORRECT_NUM_DCDT_TRANSFERS)

C16_Witness ==
    /\ cv.stage = "halted"
    /\ cv.fn = "single_fungible_dcdt"
    /\ Len(CvTransfers) = 1
    /\ CvTransfers[1].token_nonce = 1
    /\ cv.err = FUNGIBLE_TOKEN_EXPECTED_ERR_MSG

\* C17: any_payment never halts; it gives Moa(the MOA call value) exactly
\* when the call carries no DCDT transfer and MultiDcdt(all the transfers, in
\* order) exactly when it carries at least one.
C17_AnyPayment ==
    cv.stage # "off" /\ cv.fn = "any_payment" =>
        /\ CvReturned
        /\ cv.value.kind = "Moa" <=> Len(CvTransfers) = 0
        /\ cv.value.kind = "MultiDcdt" <=> Len(CvTransfers) >= 1
        /\ cv.value.kind = "Moa" => cv.value.moa = cv.vm.moa
        /\ cv.value.kind = "MultiDcdt" => cv.value.multi_dcdt = CvTransfers

C17_Witness ==
    /\ cv.fn = "any_payment"
    /\ cv.value.kind = "MultiDcdt"
    /\ Len(CvTransfers) = 1
    /\ cv.value.multi_dcdt = CvTransfers

(***************************************************************************)
(* Tx builder (framework/base/src/types/interaction/tx.rs).  A field of    *)
(* type () is one that has not been set; the impl block a method is in     *)
(* says which fields must still be ().                                     *)
(***************************************************************************)
\* most payments in the list of one transaction
MaxPayments == 3
\* most arguments of one function call
MaxArgs == 2

TxSenders == {"alice"}
TxRecipients == {"bob"}
TxGasValues == {0, 5}
TxMoaValues == {0, 2}
TxArgValues == {"a1", "a2"}
TxFunctionNames == {"f"}
TxPayments ==
    { [token_identifier |-> "TOK-123456", token_nonce |-> 0, amount |-> 1],
      [token_identifier |-> "NFT-abcdef", token_nonce |-> 1, amount |-> 1] }
\* MoaOrDcdtTokenPayment values: TxPayments and a payment of the MOA token
TxMoaOrDcdtPayments ==
    TxPayments
    \cup { [token_identifier |-> MoaIdentifier.id, token_nonce |-> 0,
            amount |-> 2] }
TxPaymentLists == UNION { [1..n -> TxPayments] : n \in 0..2 }

\* the values of the fields; kind "()" is the unit type, the field is unset
UnitAddress == [kind |-> "()", address |-> ""]
Address(a) == [kind |-> "ManagedAddress", address |-> a]
UnitGas == [kind |-> "()", value |-> 0]
ExplicitGas(g) == [kind |-> "ExplicitGas", value |-> g]
UnitData == [kind |-> "()", function_name |-> "", arg_buffer |-> <<>>]
FunctionCall(fname, args) ==
    [kind |-> "FunctionCall", function_name |-> fname, arg_buffer |-> args]
UnitPayment == [kind |-> "()", moa |-> 0, items |-> <<>>]
Moa(v) == [kind |-> "Moa", moa |-> v, items |-> <<>>]
DcdtTokenPayment(q) == [kind |-> "DcdtTokenPayment", moa |-> 0, items |-> <<q>>]
DcdtTokenPaymentRefs(q) ==
    [kind |-> "DcdtTokenPaymentRefs", moa |-> 0, items |-> <<q>>]
MoaOrDcdtTokenPaymentRefs(q) ==
    [kind |-> "MoaOrDcdtTokenPaymentRefs", moa |-> 0, items |-> <<q>>]
MoaOrDcdtTokenPayment(q) ==
    [kind |-> "MoaOrDcdtTokenPayment", moa |-> 0, items |-> <<q>>]
MultiDcdtPayment(list) ==
    [kind |-> "MultiDcdtPayment", moa |-> 0, items |-> list]
MoaOrMultiDcdtPayment(v, list) ==
    [kind |-> "MoaOrMultiDcdtPayment", moa |-> v, items |-> list]

\* every value payment() can be given
TxPaymentValues ==
    {UnitPayment}
    \cup { Moa(v) : v \in TxMoaValues }
    \cup { DcdtTokenPayment(q) : q \in TxPayments }
    \cup { DcdtTokenPaymentRefs(q) : q \in TxPayments }
    \cup { MoaOrDcdtTokenPaymentRefs(q) : q \in TxMoaOrDcdtPayments }
    \cup { MoaOrDcdtTokenPayment(q) : q \in TxMoaOrDcdtPayments }
    \cup { MultiDcdtPayment(l) : l \in TxPaymentLists }
    \cup { MoaOrMultiDcdtPayment(v, <<>>) : v \in TxMoaValues }
    \cup { MoaOrMultiDcdtPayment(0, l) : l \in TxPaymentLists \ {<<>>} }

\* lines 74-84
new_with_env ==
    [from |-> UnitAddress, to |-> UnitAddress, payment |-> UnitPayment,
     gas |-> UnitGas, data |-> UnitData, result_handler |-> "()"]

\* the impl blocks: line 87 (From = ()), 113 (To = ()), 141 (Payment = ()),
\* 354 (Gas = ()), 401 (Data = ())
from_available(tx) == tx.from.kind = "()"
to_available(tx) == tx.to.kind = "()"
payment_available(tx) == tx.payment.kind = "()"
gas_available_always(tx) == TRUE
gas_available(tx) == tx.gas.kind = "()"
data_available(tx) == tx.data.kind = "()"

\* lines 97-110
from(tx, f) == [tx EXCEPT !.from = f]
\* lines 125-138
to(tx, t) == [tx EXCEPT !.to = t]
\* lines 151-164
payment(tx, pay) == [tx EXCEPT !.payment = pay]
\* lines 169-177
moa(tx, value) == payment(tx, Moa(value))
\* lines 180-185
with_moa_transfer(tx, moa_amount) == moa(tx, moa_amount)
\* lines 192-197
dcdt(tx, q) == payment(tx, DcdtTokenPayment(q))
\* lines 202-213
single_dcdt_refs(tx, q) == payment(tx, DcdtTokenPaymentRefs(q))
\* lines 216-227
moa_or_single_dcdt_refs(tx, q) == payment(tx, MoaOrDcdtTokenPaymentRefs(q))
\* lines 234-242
tx_multi_dcdt(tx, payments) == payment(tx, MultiDcdtPayment(payments))

dcdt_second_new_first(tx, q) ==
    [tx EXCEPT !.payment = MultiDcdtPayment(<<q>> \o tx.payment.items)]

\* lines 295-311: the single payment, then the new one
dcdt_second(tx, q) ==
    [tx EXCEPT !.payment =
        MultiDcdtPayment(Append(Append(<<>>, tx.payment.items[1]), q))]

\* lines 326-332
dcdt_push(tx, q) == [tx EXCEPT !.payment.items = Append(@, q)]
\* lines 338-343
multi_dcdt_push(tx, q) == dcdt_push(tx, q)
\* lines 346-351
with_dcdt_transfer_push(tx, q) == multi_dcdt_push(tx, q)
\* lines 245-251
with_dcdt_transfer(tx, q) ==
    with_dcdt_transfer_push(payment(tx, MultiDcdtPayment(<<>>)), q)
\* lines 254-259
with_multi_token_transfer(tx, payments) == tx_multi_dcdt(tx, payments)
\* lines 262-267
with_moa_or_single_dcdt_transfer(tx, q) ==
    payment(tx, MoaOrDcdtTokenPayment(q))
\* lines 272-277
moa_or_multi_dcdt(tx, pay) == payment(tx, pay)
\* lines 365-381
gas(tx, gas_value) == [tx EXCEPT !.gas = ExplicitGas(gas_value)]
\* lines 385-398
with_gas_limit(tx, gas_limit) == [tx EXCEPT !.gas = ExplicitGas(gas_limit)]
\* lines 413-426
raw_data(tx, data) == [tx EXCEPT !.data = data]
\* lines 432-437
raw_call(tx, function_name) == raw_data(tx, FunctionCall(function_name, <<>>))
\* lines 559-562
argument(tx, arg) == [tx EXCEPT !.data.arg_buffer = Append(@, arg)]
\* lines 570-573
arguments_raw(tx, raw) == [tx EXCEPT !.data.arg_buffer = raw]
\* lines 589-601
original_result(tx) == [tx EXCEPT !.result_handler = "OriginalResultMarker"]
\* lines 524-541
legacy_proxy_call(tx, call) ==
    [tx EXCEPT !.to = call.to, !.data = call.data,
               !.result_handler = call.result_handler]

\* top-encoding of a small number as an argument of a builtin function call
HexArg(n) == <<"", "01", "02", "03", "04", "05">>[n + 1]

\* TxFrom::resolve_address: an unset sender is the environment's own address
resolve_address(f) == IF f.kind = "()" THEN Address("sc") ELSE f

\* the function name and the arguments of a call, as builtin call arguments
endpoint_args(fc) ==
    (IF fc.function_name = "" THEN <<>> ELSE <<fc.function_name>>)
    \o fc.arg_buffer

RECURSIVE payment_args(_)
payment_args(items) ==
    IF items = <<>> THEN <<>>
    ELSE <<items[1].token_identifier, HexArg(items[1].token_nonce),
           HexArg(items[1].amount)>> \o payment_args(Tail(items))

\* TxPayment::with_normalized of Moa and (): nothing changes
normalized_moa(v, t, fc) == [to |-> t, moa |-> v, fc |-> fc]

\* TxPayment::with_normalized of one DCDT payment: a fungible payment becomes
\* a DCDTTransfer call to the recipient, any other a DCDTNFTTransfer call
\* that the sender makes to itself
normalized_single(q, f, t, fc) ==
    IF q.token_nonce = 0
    THEN [to |-> t, moa |-> 0,
          fc |-> FunctionCall("DCDTTransfer",
                    <<q.token_identifier, HexArg(q.amount)>>
                    \o endpoint_args(fc))]
    ELSE [to |-> resolve_address(f), moa |-> 0,
          fc |-> FunctionCall("DCDTNFTTransfer",
                    <<q.token_identifier, HexArg(q.token_nonce),
                      HexArg(q.amount), t.address>>
                    \o endpoint_args(fc))]

\* TxPayment::with_normalized of a list of DCDT payments
normalized_multi(items, f, t, fc) ==
    IF Len(items) = 0 THEN normalized_moa(0, t, fc)
    ELSE IF Len(items) = 1 THEN normalized_single(items[1], f, t, fc)
    ELSE [to |-> resolve_address(f), moa |-> 0,
          fc |-> FunctionCall("MultiDCDTNFTTransfer",
                    <<t.address, HexArg(Len(items))>> \o payment_args(items)
                    \o endpoint_args(fc))]

\* tx_payment_moa_or_dcdt_refs.rs lines 27-46: map_moa_or_dcdt picks the MOA
\* branch for the MOA identifier and the DCDT branch for any other
with_normalized_moa_or_dcdt(q, f, t, fc) ==
    IF q.token_identifier = MoaIdentifier.id
    THEN normalized_moa(q.amount, t, fc)
    ELSE normalized_single(q, f, t, fc)

with_normalized(pay, f, t, fc) ==
    CASE pay.kind \in {"()", "Moa"} -> normalized_moa(pay.moa, t, fc)
      [] pay.kind \in {"DcdtTokenPayment", "DcdtTokenPaymentRefs"} ->
            normalized_single(pay.items[1], f, t, fc)
      [] pay.kind \in {"MoaOrDcdtTokenPaymentRefs", "MoaOrDcdtTokenPayment"} ->
            with_normalized_moa_or_dcdt(pay.items[1], f, t, fc)
      [] pay.kind = "MultiDcdtPayment" ->
            normalized_multi(pay.items, f, t, fc)
      [] pay.kind = "MoaOrMultiDcdtPayment" ->
            IF pay.items = <<>> THEN normalized_moa(pay.moa, t, fc)
            ELSE normalized_multi(pay.items, f, t, fc)

\* lines 455-462: normalize needs a recipient and a function call
normalize_available(tx) ==
    tx.to.kind # "()" /\ tx.data.kind = "FunctionCall"

\* lines 480-508
normalize(tx) ==
    LET norm == with_normalized(tx.payment, tx.from, tx.to, tx.data)
    IN [tx EXCEPT !.to = norm.to, !.payment = Moa(norm.moa),
                  !.data = norm.fc]

\* lines 511-516: legacy_proxy_call needs To = (), Data = (), RH = ()
legacy_proxy_call_available(tx) ==
    tx.to.kind = "()" /\ tx.data.kind = "()" /\ tx.result_handler = "()"

TxArgLists == UNION { [1..n -> TxArgValues] : n \in 0..MaxArgs }
TxShortArgLists == UNION { [1..n -> TxArgValues] : n \in 0..1 }
TxFunctionCalls ==
    { FunctionCall(fname, a) : fname \in TxFunctionNames, a \in TxShortArgLists }
\* the calls a legacy proxy hands to legacy_proxy_call (line 526)
LegacyCalls ==
    { [new_with_env EXCEPT !.to = t, !.data = d,
                           !.result_handler = "OriginalResultMarker"] :
        t \in {UnitAddress} \cup { Address(a) : a \in TxRecipients },
        d \in TxFunctionCalls }

\* a builder under construction: the transaction, the method called last,
\* the payments given to the dcdt family so far, and whether every payment
\* step so far was a call of dcdt
InitTx ==
    /\ AddUriOff
    /\ codec = NoCodec
    /\ cv = NoCallValue
    /\ txb = [stage |-> "building", tx |-> new_with_env,
              method |-> "new_with_env", given |-> <<>>, chain |-> "none"]
    /\ dc = NoCash

TxStep(method, tx2, given2, chain2) ==
    /\ txb.stage = "building"
    /\ txb' = [txb EXCEPT !.tx = tx2, !.method = method, !.given = given2,
                          !.chain = chain2]
    /\ UNCHANGED <<addUriVars, codec, cv, dc>>

\* a step that is not about the payment
TxFieldStep(method, tx2) == TxStep(method, tx2, txb.given, txb.chain)
\* a step that sets the payment as a whole
TxPaymentStep(method, tx2) == TxStep(method, tx2, txb.given, "other")

TxFrom ==
    /\ from_available(txb.tx)
    /\ \E f \in {UnitAddress} \cup { Address(a) : a \in TxSenders } :
          TxFieldStep("from", from(txb.tx, f))

TxTo ==
    /\ to_available(txb.tx)
    /\ \E t \in {UnitAddress} \cup { Address(a) : a \in TxRecipients } :
          TxFieldStep("to", to(txb.tx, t))

TxPayment ==
    /\ payment_available(txb.tx)
    /\ \E pay \in TxPaymentValues :
          TxStep("payment", payment(txb.tx, pay), txb.given,
                 IF pay = UnitPayment THEN txb.chain ELSE "other")

TxMoa ==
    /\ payment_available(txb.tx)
    /\ \E v \in TxMoaValues : TxPaymentStep("moa", moa(txb.tx, v))

TxWithMoaTransfer ==
    /\ payment_available(txb.tx)
    /\ \E v \in TxMoaValues :
          TxPaymentStep("with_moa_transfer", with_moa_transfer(txb.tx, v))

\* dcdt on a transaction without payment (lines 192-197)
TxDcdt ==
    /\ payment_available(txb.tx)
    /\ \E q \in TxPayments :
          TxStep("dcdt", dcdt(txb.tx, q), Append(txb.given, q),
                 IF txb.chain = "none" THEN "dcdt" ELSE txb.chain)

TxSingleDcdt ==
    /\ payment_available(txb.tx)
    /\ \E q \in TxPayments :
          TxPaymentStep("single_dcdt", single_dcdt_refs(txb.tx, q))

TxMoaOrSingleDcdt ==
    /\ payment_available(txb.tx)
    /\ \E q \in TxMoaOrDcdtPayments :
          TxPaymentStep("moa_or_single_dcdt",
                        moa_or_single_dcdt_refs(txb.tx, q))

TxMultiDcdt ==
    /\ payment_available(txb.tx)
    /\ \E l \in TxPaymentLists :
          TxPaymentStep("multi_dcdt", tx_multi_dcdt(txb.tx, l))

TxWithDcdtTransfer ==
    /\ payment_available(txb.tx)
    /\ \E q \in TxPayments :
          TxStep("with_dcdt_transfer", with_dcdt_transfer(txb.tx, q),
                 Append(txb.given, q), "other")

TxWithMultiTokenTransfer ==
    /\ payment_available(txb.tx)
    /\ \E l \in TxPaymentLists :
          TxPaymentStep("with_multi_token_transfer",
                        with_multi_token_transfer(txb.tx, l))

TxWithMoaOrSingleDcdtTransfer ==
    /\ payment_available(txb.tx)
    /\ \E q \in TxMoaOrDcdtPayments :
          TxPaymentStep("with_moa_or_single_dcdt_transfer",
                        with_moa_or_single_dcdt_transfer(txb.tx, q))

TxMoaOrMultiDcdt ==
    /\ payment_available(txb.tx)
    /\ \E pay \in { x \in TxPaymentValues :
                      x.kind = "MoaOrMultiDcdtPayment" } :
          TxPaymentStep("moa_or_multi_dcdt", moa_or_multi_dcdt(txb.tx, pay))

\* dcdt on a transaction with one owned DCDT payment (lines 295-311)
TxDcdtSecond ==
    /\ txb.tx.payment.kind = "DcdtTokenPayment"
    /\ \E q \in TxPayments :
          TxStep("dcdt", dcdt_second(txb.tx, q), Append(txb.given, q),
                 txb.chain)

\* dcdt on a transaction with a list of DCDT payments (lines 326-332)
TxDcdtPush ==
    /\ txb.tx.payment.kind = "MultiDcdtPayment"
    /\ Len(txb.tx.payment.items) < MaxPayments
    /\ \E q \in TxPayments :
          TxStep("dcdt", dcdt_push(txb.tx, q), Append(txb.given, q),
                 txb.chain)

TxMultiDcdtPush ==
    /\ txb.tx.payment.kind = "MultiDcdtPayment"
    /\ Len(txb.tx.payment.items) < MaxPayments
    /\ \E q \in TxPayments :
          TxStep("multi_dcdt", multi_dcdt_push(txb.tx, q),
                 Append(txb.given, q), "other")

TxWithDcdtTransferPush ==
    /\ txb.tx.payment.kind = "MultiDcdtPayment"
    /\ Len(txb.tx.payment.items) < MaxPayments
    /\ \E q \in TxPayments :
          TxStep("with_dcdt_transfer", with_dcdt_transfer_push(txb.tx, q),
                 Append(txb.given, q), "other")

TxGas ==
    /\ gas_available(txb.tx)
    /\ \E g \in TxGasValues : TxFieldStep("gas", gas(txb.tx, g))

TxWithGasLimit ==
    /\ gas_available(txb.tx)
    /\ \E g \in TxGasValues :
          TxFieldStep("with_gas_limit", with_gas_limit(txb.tx, g))

TxRawData ==
    /\ data_available(txb.tx)
    /\ \E d \in {UnitData} \cup TxFunctionCalls :
          TxFieldStep("raw_data", raw_data(txb.tx, d))

TxRawCall ==
    /\ data_available(txb.tx)
    /\ \E fname \in TxFunctionNames :
          TxFieldStep("raw_call", raw_call(txb.tx, fname))

TxNormalize ==
    /\ normalize_available(txb.tx)
    /\ TxPaymentStep("normalize", normalize(txb.tx))

TxLegacyProxyCall ==
    /\ legacy_proxy_call_available(txb.tx)
    /\ \E call \in LegacyCalls :
          TxFieldStep("legacy_proxy_call", legacy_proxy_call(txb.tx, call))

TxArgument ==
    /\ txb.tx.data.kind = "FunctionCall"
    /\ Len(txb.tx.data.arg_buffer) < MaxArgs
    /\ \E arg \in TxArgValues : TxFieldStep("argument", argument(txb.tx, arg))

TxArgumentsRaw ==
    /\ txb.tx.data.kind = "FunctionCall"
    /\ \E raw \in TxArgLists :
          TxFieldStep("arguments_raw", arguments_raw(txb.tx, raw))

TxOriginalResult ==
    /\ txb.tx.result_handler = "()"
    /\ TxFieldStep("original_result", original_result(txb.tx))

NextTx ==
    \/ TxFrom
    \/ TxTo
    \/ TxPayment
    \/ TxMoa
    \/ TxWithMoaTransfer
    \/ TxDcdt
    \/ TxSingleDcdt
    \/ TxMoaOrSingleDcdt
    \/ TxMultiDcdt
    \/ TxWithDcdtTransfer
    \/ TxWithMultiTokenTransfer
    \/ TxWithMoaOrSingleDcdtTransfer
    \/ TxMoaOrMultiDcdt
    \/ TxDcdtSecond
    \/ TxDcdtPush
    \/ TxMultiDcdtPush
    \/ TxWithDcdtTransferPush
    \/ TxGas
    \/ TxWithGasLimit
    \/ TxRawData
    \/ TxRawCall
    \/ TxNormalize
    \/ TxLegacyProxyCall
    \/ TxArgument
    \/ TxArgumentsRaw
    \/ TxOriginalResult

SpecTx == InitTx /\ [][NextTx]_vars

TxBuilding == txb.stage = "building"

\* C18: from a transaction without payment, k calls of dcdt give, for k = 1,
\* a single-payment transaction holding that payment and, for k >= 2, a list
\* of exactly k payments in call order; on a transaction that holds a list,
\* multi_dcdt(p) and with_dcdt_transfer(p) do what dcdt(p) does: p is
\* appended to the list and no other field changes.
C18_DcdtChaining ==
    [][ TxBuilding =>
          /\ txb'.chain = "dcdt" =>
                /\ Len(txb'.given) >= 1
                /\ Len(txb'.given) = 1 =>
                      txb'.tx.payment.kind = "DcdtTokenPayment"
                /\ Len(txb'.given) >= 2 =>
                      txb'.tx.payment.kind = "MultiDcdtPayment"
                /\ Len(txb'.tx.payment.items) = Len(txb'.given)
                /\ txb'.tx.payment.items = txb'.given
          /\ ( /\ txb.tx.payment.kind = "MultiDcdtPayment"
               /\ txb'.method \in {"dcdt", "multi_dcdt", "with_dcdt_transfer"} )
             => /\ Len(txb'.given) = Len(txb.given) + 1
                /\ txb'.tx =
                     [txb.tx EXCEPT !.payment.items =
                         Append(@, txb'.given[Len(txb'.given)])]
      ]_vars

C18_Witness ==
    /\ TxBuilding
    /\ txb.chain = "dcdt"
    /\ Len(txb.given) = 3
    /\ txb.given[1] # txb.given[2]
    /\ txb.tx.payment.kind = "MultiDcdtPayment"
    /\ txb.tx.payment.items = txb.given

IsSet(field) == field.kind # "()"

\* the data d2 still has everything the data d1 had
KeepsData(d1, d2) ==
    /\ d2.kind = d1.kind
    /\ d2.function_name = d1.function_name
    /\ Len(d2.arg_buffer) >= Len(d1.arg_buffer)
    /\ SubSeq(d2.arg_buffer, 1, Len(d1.arg_buffer)) = d1.arg_buffer

\* the payments the dcdt family extends
ExtendableDcdt(pay) == pay.kind \in {"DcdtTokenPayment", "MultiDcdtPayment"}

\* the methods are called only on a transaction whose field is still unset
SetOnceAvailability ==
    /\ txb'.method \in {"payment", "moa", "with_moa_transfer", "single_dcdt",
                        "moa_or_single_dcdt", "moa_or_multi_dcdt",
                        "with_multi_token_transfer",
                        "with_moa_or_single_dcdt_transfer"}
          => ~IsSet(txb.tx.payment)
    /\ txb'.method = "from" => ~IsSet(txb.tx.from)
    /\ txb'.method = "to" => ~IsSet(txb.tx.to)
    /\ txb'.method \in {"gas", "with_gas_limit"} => ~IsSet(txb.tx.gas)
    /\ txb'.method \in {"raw_call", "raw_data"} => ~IsSet(txb.tx.data)

MaxFee == 1

\* largest collected fee of one token
MaxCollected == 1

DcTokens == {MoaIdentifier.id, "FEE-123456", "TKN-654321"}
DcFeeTokens == {MoaIdentifier.id, "FEE-123456"}
DcCallers == {"owner", "user"}
DcFees == 0..MaxFee
\* the keys deposits are made under, and the keys getAmount is asked about
DcDepositKeys == {"key1"}
DcQueryKeys == {"key1", "key2"}
DcNonces == {0, 1}

\* DepositInfo: the MOA funds and the DCDT funds of a deposit
NoDeposit == [exists |-> FALSE, moa_funds |-> 0, dcdt_funds |-> <<>>]
DepositInfo(moa_funds, dcdt_funds) ==
    [exists |-> TRUE, moa_funds |-> moa_funds, dcdt_funds |-> dcdt_funds]
DcdtFund(token, nonce, amount) ==
    [token_identifier |-> token, token_nonce |-> nonce, amount |-> amount]
DcDeposits ==
    { DepositInfo(3, <<DcdtFund("FEE-123456", 1, 1), DcdtFund("FEE-123456", 0, 2),
                       DcdtFund("FEE-123456", 0, 1)>>),
      DepositInfo(0, <<DcdtFund("TKN-654321", 1, 2)>>) }

\* BigUint top-encoding: the shortest big-endian bytes, none for zero
biguint_top_encode(n) == top_encode_u64(n)
biguint_top_decode(bytes) == from_bytes_be(bytes)

\* SingleValueMapper over a storage key: is_empty, set, clear
svm_is_empty(bytes) == Len(bytes) = 0
svm_set(value) == biguint_top_encode(value)
svm_clear == <<>>
svm_get(bytes) == biguint_top_decode(bytes)

\* UnorderedSetMapper: the items in storage order
Contains(items, x) == \E i \in 1..Len(items) : items[i] = x
IndexOf(items, x) == CHOOSE i \in 1..Len(items) : items[i] = x
insert(items, x) == IF Contains(items, x) THEN items ELSE Append(items, x)
swap_remove(items, x) ==
    IF ~Contains(items, x) THEN items
    ELSE LET i == IndexOf(items, x)
             n == Len(items)
         IN SubSeq([items EXCEPT ![i] = items[n]], 1, n - 1)

\* the storage of a contract that was just deployed
EmptyStorage ==
    [fee |-> [t \in DcTokens |-> <<>>],
     whitelisted_fee_tokens |-> <<>>,
     all_time_fee_tokens |-> <<>>,
     collected_fees |-> [t \in DcTokens |-> <<>>],
     deposit |-> [k \in DcQueryKeys |-> NoDeposit]]

\* what an endpoint gives: the storage it leaves and, when a require! fails,
\* the error; a failed call is reverted
DcOk(storage) ==
    [outcome |-> "ok", message |-> "", storage |-> storage, value |-> 0,
     transfers |-> <<>>]
DcError(storage, msg) ==
    [outcome |-> "error", message |-> msg, storage |-> storage, value |-> 0,
     transfers |-> <<>>]
\* a view's result, and the transfers an endpoint has made
DcReturn(storage, value) == [DcOk(storage) EXCEPT !.value = value]
DcSent(storage, transfers) == [DcOk(storage) EXCEPT !.transfers = transfers]

\* #[only_owner]
only_owner_error == "Endpoint can only be called by owner"

\* lines 28-35
whitelist_fee_token(storage, fee, token) ==
    IF ~svm_is_empty(storage.fee[token])
    THEN DcError(storage, "Token already whitelisted")
    ELSE DcOk([storage EXCEPT
                 !.fee[token] = svm_set(fee),
                 !.whitelisted_fee_tokens = insert(@, token),
                 !.all_time_fee_tokens = insert(@, token)])

\* lines 23-26
init(storage, fee, token) == whitelist_fee_token(storage, fee, token)

\* a blacklisting that forgets the token altogether
blacklist_fee_token_forgetting(storage, token) ==
    IF svm_is_empty(storage.fee[token])
    THEN DcError(storage, "Token is not whitelisted")
    ELSE DcOk([storage EXCEPT
                 !.fee[token] = svm_clear,
                 !.whitelisted_fee_tokens = swap_remove(@, token),
                 !.all_time_fee_tokens = swap_remove(@, token)])

\* lines 37-43
blacklist_fee_token(storage, token) ==
    IF svm_is_empty(storage.fee[token])
    THEN DcError(storage, "Token is not whitelisted")
    ELSE DcOk([storage EXCEPT
                 !.fee[token] = svm_clear,
                 !.whitelisted_fee_tokens = swap_remove(@, token)])

\* a transfer the contract makes: MOA, or a list of DCDT payments
MoaTransfer(receiver, amount) ==
    [to |-> receiver, moa |-> amount, payments |-> <<>>]
MultiTransfer(receiver, payments) ==
    [to |-> receiver, moa |-> 0, payments |-> payments]

\* SingleValueMapper::take: the value, and the entry cleared
svm_take(bytes) == [value |-> svm_get(bytes), bytes |-> svm_clear]

\* a round that sends a zero fee too
claim_fee_of_no_skip(token, caller_address, acc) ==
    LET taken == svm_take(acc.collected_fees[token])
        cleared == [acc EXCEPT !.collected_fees[token] = taken.bytes]
    IN IF token = MoaIdentifier.id
       THEN [cleared EXCEPT
               !.transfers = Append(@, MoaTransfer(caller_address, taken.value))]
       ELSE [cleared EXCEPT
               !.collected_dcdt_fees = Append(@, DcdtFund(token, 0, taken.value))]

\* lines 52-62: one round of the loop of claim_fees
claim_fee_of(token, caller_address, acc) ==
    LET taken == svm_take(acc.collected_fees[token])
        cleared == [acc EXCEPT !.collected_fees[token] = taken.bytes]
    IN IF taken.value = 0 THEN cleared
       ELSE IF token = MoaIdentifier.id
       THEN [cleared EXCEPT
               !.transfers = Append(@, MoaTransfer(caller_address, taken.value))]
       ELSE [cleared EXCEPT
               !.collected_dcdt_fees = Append(@, DcdtFund(token, 0, taken.value))]

\* lines 51-63: the loop over the fee tokens, in their storage order
RECURSIVE claim_fees_loop(_, _, _)
claim_fees_loop(fee_tokens, caller_address, acc) ==
    IF fee_tokens = <<>> THEN acc
    ELSE claim_fees_loop(Tail(fee_tokens), caller_address,
                         claim_fee_of(Head(fee_tokens), caller_address, acc))

\* a claim that visits the whitelisted tokens only
claim_fees_whitelisted_only(storage, caller_address) ==
    LET done == claim_fees_loop(storage.whitelisted_fee_tokens, caller_address,
                    [collected_fees |-> storage.collected_fees,
                     transfers |-> <<>>, collected_dcdt_fees |-> <<>>])
    IN DcSent([storage EXCEPT !.collected_fees = done.collected_fees],
              IF done.collected_dcdt_fees # <<>>
              THEN Append(done.transfers,
                          MultiTransfer(caller_address, done.collected_dcdt_fees))
              ELSE done.transfers)

\* lines 45-70
claim_fees(storage, caller_address) ==
    LET done == claim_fees_loop(storage.all_time_fee_tokens, caller_address,
                    [collected_fees |-> storage.collected_fees,
                     transfers |-> <<>>, collected_dcdt_fees |-> <<>>])
    IN DcSent([storage EXCEPT !.collected_fees = done.collected_fees],
              IF done.collected_dcdt_fees # <<>>
              THEN Append(done.transfers,
                          MultiTransfer(caller_address, done.collected_dcdt_fees))
              ELSE done.transfers)

NON_EXISTENT_KEY_ERR_MSG == "non-existent key"

\* lines 87-91: the amount of the first fund of the token and nonce
RECURSIVE first_matching_amount(_, _, _)
first_matching_amount(dcdt_funds, token, nonce) ==
    IF dcdt_funds = <<>> THEN 0
    ELSE IF /\ Head(dcdt_funds).token_identifier = token
            /\ Head(dcdt_funds).token_nonce = nonce
    THEN Head(dcdt_funds).amount
    ELSE first_matching_amount(Tail(dcdt_funds), token, nonce)

\* a view that reads the nonce of the first entry, not the one asked for
get_amount_any_nonce(storage, address, token, nonce) ==
    IF ~storage.deposit[address].exists
    THEN DcError(storage, NON_EXISTENT_KEY_ERR_MSG)
    ELSE IF token = MoaIdentifier.id
    THEN DcReturn(storage, storage.deposit[address].moa_funds)
    ELSE DcReturn(storage,
                  first_matching_amount(storage.deposit[address].dcdt_funds,
                                        token,
                                        storage.deposit[address].dcdt_funds[1]
                                            .token_nonce))

\* lines 72-94
get_amount(storage, address, token, nonce) ==
    IF ~storage.deposit[address].exists
    THEN DcError(storage, NON_EXISTENT_KEY_ERR_MSG)
    ELSE IF token = MoaIdentifier.id
    THEN DcReturn(storage, storage.deposit[address].moa_funds)
    ELSE DcReturn(storage,
                  first_matching_amount(storage.deposit[address].dcdt_funds,
                                        token, nonce))

NoDcCall ==
    [endpoint |-> "none", caller |-> "owner", fee |-> 0,
     token |-> MoaIdentifier.id, outcome |-> "none", message |-> "",
     address |-> "", nonce |-> 0, value |-> 0, transfers |-> <<>>]

\* the contract is not deployed yet
InitCash ==
    /\ AddUriOff
    /\ codec = NoCodec
    /\ cv = NoCallValue
    /\ txb = NoTx
    /\ dc = [stage |-> "undeployed", storage |-> EmptyStorage,
             listed |-> {}, last |-> NoDcCall]

\* a call ends: its storage is kept when it succeeded; listed has the tokens
\* whitelisted by a successful call and not blacklisted by one since
DcCallAbout(endpoint, caller, fee, token, address, nonce, r, listed2) ==
    /\ dc' = [stage |-> IF r.outcome = "ok" THEN "deployed" ELSE dc.stage,
              storage |-> r.storage,
              listed |-> IF r.outcome = "ok" THEN listed2 ELSE dc.listed,
              last |-> [endpoint |-> endpoint, caller |-> caller,
                        fee |-> fee, token |-> token,
                        outcome |-> r.outcome, message |-> r.message,
                        address |-> address, nonce |-> nonce,
                        value |-> r.value, transfers |-> r.transfers]]
    /\ UNCHANGED <<addUriVars, codec, cv, txb>>

DcCall(endpoint, caller, fee, token, r, listed2) ==
    DcCallAbout(endpoint, caller, fee, token, "", 0, r, listed2)

\* the deployer, who becomes the owner, deploys the contract
DcInit(tokens) ==
    /\ dc.stage = "undeployed"
    /\ \E fee \in DcFees, token \in tokens :
          DcCall("init", "owner", fee, token,
                 init(dc.storage, fee, token), dc.listed \cup {token})

\* #[only_owner]: a call by anyone else fails before the endpoint's body
DcNotOwner(endpoint) ==
    DcCall(endpoint, "user", 0, MoaIdentifier.id,
           DcError(dc.storage, only_owner_error), dc.listed)

DcWhitelistFeeToken(tokens) ==
    /\ dc.stage = "deployed"
    /\ \E caller \in DcCallers, fee \in DcFees, token \in tokens :
          IF caller # "owner" THEN DcNotOwner("whitelistFeeToken")
          ELSE DcCall("whitelistFeeToken", caller, fee, token,
                      whitelist_fee_token(dc.storage, fee, token),
                      dc.listed \cup {token})

DcBlacklistFeeToken(tokens) ==
    /\ dc.stage = "deployed"
    /\ \E caller \in DcCallers, token \in tokens :
          IF caller # "owner" THEN DcNotOwner("blacklistFeeToken")
          ELSE DcCall("blacklistFeeToken", caller, 0, token,
                      blacklist_fee_token(dc.storage, token),
                      dc.listed \ {token})

DcClaimFees ==
    /\ dc.stage = "deployed"
    /\ \E caller \in DcCallers :
          IF caller # "owner" THEN DcNotOwner("claimFees")
          ELSE DcCall("claimFees", caller, 0, MoaIdentifier.id,
                      claim_fees(dc.storage, caller), dc.listed)

DcGetAmount ==
    /\ dc.stage = "deployed"
    /\ \E address \in DcQueryKeys, token \in DcTokens, nonce \in DcNonces :
          DcCallAbout("getAmount", "user", 0, token, address, nonce,
                      get_amount(dc.storage, address, token, nonce), dc.listed)

\* funding (pay_fee_and_fund): a deposit appears under a key that has none
DcDeposit ==
    /\ dc.stage = "deployed"
    /\ \E address \in DcDepositKeys, deposit \in DcDeposits :
          /\ ~dc.storage.deposit[address].exists
          /\ DcCallAbout("fund", "user", 0, MoaIdentifier.id, address, 0,
                         DcOk([dc.storage EXCEPT !.deposit[address] = deposit]),
                         dc.listed)

\* claiming a deposit (signature_operations): its fee, paid in a fee token
\* when the deposit was made, is added to the collected fees of that token
DcCollectFee(tokens) ==
    /\ dc.stage = "deployed"
    /\ \E token \in tokens :
          /\ Contains(dc.storage.all_time_fee_tokens, token)
          /\ svm_get(dc.storage.collected_fees[token]) < MaxCollected
          /\ DcCall("claim", "user", 0, token,
                    DcOk([dc.storage EXCEPT !.collected_fees[token] =
                            svm_set(svm_get(@) + 1)]),
                    dc.listed)

\* the fee tokens are drawn from MOA and one DCDT token
NextCash ==
    \/ DcInit(DcFeeTokens)
    \/ DcWhitelistFeeToken(DcFeeTokens)
    \/ DcBlacklistFeeToken(DcFeeTokens)
    \/ DcClaimFees
    \/ DcDeposit
    \/ DcCollectFee(DcFeeTokens)

SpecCash == InitCash /\ [][NextCash]_vars

\* the fees of MOA and two DCDT tokens, collected and claimed
NextCashFees ==
    \/ DcInit(DcTokens)
    \/ DcWhitelistFeeToken(DcTokens)
    \/ DcCollectFee(DcTokens)
    \/ DcClaimFees

SpecCashFees == InitCash /\ [][NextCashFees]_vars

\* the deposits and their view
NextCashView ==
    \/ DcInit(DcTokens)
    \/ DcDeposit
    \/ DcGetAmount

SpecCashView == InitCash /\ [][NextCashView]_vars

\* C20: a call of whitelistFeeToken by the owner (and init) for a token that
\* is currently whitelisted fails with "Token already whitelisted", whatever
\* the fee, and leaves fee, whitelisted_fee_tokens and all_time_fee_tokens
\* unchanged; for a token that is not currently whitelisted it sets the fee
\* and inserts the token into both sets.
C20_WhitelistRule ==
    [][ ( /\ dc'.last.endpoint \in {"init", "whitelistFeeToken"}
          /\ dc'.last.caller = "owner" )
        => IF dc'.last.token \in dc.listed
           THEN /\ dc'.last.outcome = "error"
                /\ dc'.last.message = "Token already whitelisted"
                /\ dc'.storage = dc.storage
           ELSE /\ dc'.last.outcome = "ok"
                /\ biguint_top_decode(dc'.storage.fee[dc'.last.token])
                     = dc'.last.fee
                /\ Contains(dc'.storage.whitelisted_fee_tokens, dc'.last.token)
                /\ Contains(dc'.storage.all_time_fee_tokens, dc'.last.token)
      ]_vars

\* the members of a set mapper, in any order
Members(items) == { items[i] : i \in 1..Len(items) }

\* C21: a call of blacklistFeeToken by the owner for a token whose fee entry
\* is empty fails with "Token is not whitelisted" and changes nothing;
\* otherwise it clears the token's fee and removes the token from
\* whitelisted_fee_tokens, leaves the other fees and members,
\* all_time_fee_tokens, the collected fees and every deposit unchanged, and
\* the token can then be whitelisted again with any fee.
C21_BlacklistRule ==
    [][ ( /\ dc'.last.endpoint = "blacklistFeeToken"
          /\ dc'.last.caller = "owner" )
        => LET token == dc'.last.token
           IN IF Len(dc.storage.fee[token]) = 0
              THEN /\ dc'.last.outcome = "error"
                   /\ dc'.last.message = "Token is not whitelisted"
                   /\ dc'.storage = dc.storage
              ELSE /\ dc'.last.outcome = "ok"
                   /\ Len(dc'.storage.fee[token]) = 0
                   /\ \A t \in DcTokens \ {token} :
                         dc'.storage.fee[t] = dc.storage.fee[t]
                   /\ Members(dc'.storage.whitelisted_fee_tokens)
                        = Members(dc.storage.whitelisted_fee_tokens) \ {token}
                   /\ Len(dc'.storage.whitelisted_fee_tokens)
                        = Len(dc.storage.whitelisted_fee_tokens) - 1
                   /\ dc'.storage.all_time_fee_tokens
                        = dc.storage.all_time_fee_tokens
                   /\ dc'.storage.collected_fees = dc.storage.collected_fees
                   /\ dc'.storage.deposit = dc.storage.deposit
                   /\ \A fee \in DcFees :
                         whitelist_fee_token(dc'.storage, fee, token).outcome
                           = "ok"
      ]_vars

\* a whitelisted token with collected fees is blacklisted while a deposit
\* exists
C21_Blacklisted ==
    /\ dc.last.endpoint = "blacklistFeeToken"
    /\ dc.last.outcome = "ok"
    /\ Contains(dc.storage.all_time_fee_tokens, dc.last.token)
    /\ Len(dc.storage.collected_fees[dc.last.token]) > 0
    /\ \E k \in DcDepositKeys : dc.storage.deposit[k].exists
    /\ Len(dc.storage.whitelisted_fee_tokens) > 0

\* C22: in every state reached by init, whitelistFeeToken and
\* blacklistFeeToken calls with any fee, 0 included, a token is a member of
\* whitelisted_fee_tokens if and only if its fee storage entry is non-empty.
C22_WhitelistedIffFee ==
    \A token \in DcTokens :
        Contains(dc.storage.whitelisted_fee_tokens, token)
          <=> Len(dc.storage.fee[token]) > 0

\* the transfers send the amount of the token: MOA in a transfer of its own,
\* a DCDT token as a payment of nonce 0 in a multi-payment transfer
Sends(transfers, token, amount) ==
    \E i \in 1..Len(transfers) :
        IF token = MoaIdentifier.id
        THEN transfers[i].payments = <<>> /\ transfers[i].moa = amount
        ELSE \E j \in 1..Len(transfers[i].payments) :
                transfers[i].payments[j] = DcdtFund(token, 0, amount)

\* C23: all_time_fee_tokens only grows (no step removes an element from it),
\* whitelisted_fee_tokens is a subset of it in every state, and claimFees
\* visits every token of it, a blacklisted one too: the token's collected fee
\* is taken and, if it was not zero, sent.
C23_AllTimeGrows ==
    [][ /\ Members(dc.storage.all_time_fee_tokens)
             \subseteq Members(dc'.storage.all_time_fee_tokens)
        /\ Members(dc.storage.whitelisted_fee_tokens)
             \subseteq Members(dc.storage.all_time_fee_tokens)
        /\ Members(dc'.storage.whitelisted_fee_tokens)
             \subseteq Members(dc'.storage.all_time_fee_tokens)
        /\ ( dc'.last.endpoint = "claimFees" /\ dc'.last.outcome = "ok" )
             => \A token \in Members(dc.storage.all_time_fee_tokens) :
                   /\ Len(dc'.storage.collected_fees[token]) = 0
                   /\ Len(dc.storage.collected_fees[token]) > 0
                        => Sends(dc'.last.transfers, token,
                                 biguint_top_decode(
                                     dc.storage.collected_fees[token]))
      ]_vars

\* claimFees has sent the fee of a token that is blacklisted
C23_BlacklistedTokenClaimed ==
    /\ dc.last.endpoint = "claimFees"
    /\ dc.last.outcome = "ok"
    /\ \E token \in DcTokens :
          /\ ~Contains(dc.storage.whitelisted_fee_tokens, token)
          /\ Len(dc.storage.fee[token]) = 0
          /\ token \notin dc.listed
          /\ Contains(dc.storage.all_time_fee_tokens, token)
          /\ \E amount \in 1..MaxCollected :
                Sends(dc.last.transfers, token, amount)

\* the fee collected for a token
Collected(storage, token) == biguint_top_decode(storage.collected_fees[token])

\* the DCDT tokens of all_time_fee_tokens with a collected fee
DcdtTokensDue(storage) ==
    { token \in Members(storage.all_time_fee_tokens) \ {MoaIdentifier.id} :
        Collected(storage, token) > 0 }

MoaDue(storage) ==
    /\ Contains(storage.all_time_fee_tokens, MoaIdentifier.id)
    /\ Collected(storage, MoaIdentifier.id) > 0

\* C24: after a successful claimFees the collected fee of every token of
\* all_time_fee_tokens is zero and the caller has been sent exactly what was
\* collected before the call: the MOA fee, if not zero, in a transfer of its
\* own, and all nonzero DCDT fees, each with nonce 0, together in one
\* multi-payment transfer; a zero fee produces no transfer and no payment,
\* there is no multi-payment transfer without a DCDT fee, and a second
\* claimFees straight after transfers nothing.
C24_ClaimFees ==
    [][ ( dc'.last.endpoint = "claimFees" /\ dc'.last.outcome = "ok" )
        => LET sent == dc'.last.transfers
               single == { i \in 1..Len(sent) : sent[i].payments = <<>> }
               multi == { i \in 1..Len(sent) : sent[i].payments # <<>> }
               due == DcdtTokensDue(dc.storage)
           IN /\ \A token \in Members(dc.storage.all_time_fee_tokens) :
                    /\ Collected(dc'.storage, token) = 0
                    /\ Len(dc'.storage.collected_fees[token]) = 0
              /\ \A i \in 1..Len(sent) : sent[i].to = dc'.last.caller
              /\ Cardinality(single) = IF MoaDue(dc.storage) THEN 1 ELSE 0
              /\ \A i \in single :
                    sent[i].moa = Collected(dc.storage, MoaIdentifier.id)
              /\ Cardinality(multi) = IF due # {} THEN 1 ELSE 0
              /\ \A i \in multi :
                    /\ sent[i].moa = 0
                    /\ Len(sent[i].payments) = Cardinality(due)
                    /\ Members(sent[i].payments)
                         = { DcdtFund(token, 0, Collected(dc.storage, token)) :
                               token \in due }
              /\ ( dc.last.endpoint = "claimFees" /\ dc.last.outcome = "ok" )
                   => sent = <<>>
      ]_vars

\* claimFees has sent the MOA fee and, in one transfer, the fees of two DCDT
\* tokens
C24_AllFeesClaimed ==
    /\ dc.last.endpoint = "claimFees"
    /\ dc.last.outcome = "ok"
    /\ Len(dc.last.transfers) = 2
    /\ \E i \in 1..2 : /\ dc.last.transfers[i].payments = <<>>
                        /\ dc.last.transfers[i].moa > 0
    /\ \E i \in 1..2 : Len(dc.last.transfers[i].payments) = 2

\* C25: getAmount(address, token, nonce) fails with the non-existent-key
\* error when there is no deposit under the address; otherwise it returns the
\* deposit's MOA funds for the MOA token, whatever the nonce, and for a DCDT
\* token the amount of the first deposited DCDT entry whose identifier and
\* nonce both match, zero when none matches. It never modifies storage.
C25_GetAmount ==
    [][ dc'.last.endpoint = "getAmount"
        => LET deposit == dc.storage.deposit[dc'.last.address]
               token == dc'.last.token
               funds == deposit.dcdt_funds
               matching == { i \in 1..Len(funds) :
                              /\ funds[i].token_identifier = token
                              /\ funds[i].token_nonce = dc'.last.nonce }
               first == CHOOSE i \in matching : \A j \in matching : i <= j
           IN /\ dc'.storage = dc.storage
              /\ IF ~deposit.exists
                 THEN /\ dc'.last.outcome = "error"
                      /\ dc'.last.message = NON_EXISTENT_KEY_ERR_MSG
                 ELSE /\ dc'.last.outcome = "ok"
                      /\ dc'.last.value =
                           IF token = MoaIdentifier.id THEN deposit.moa_funds
                           ELSE IF matching = {} THEN 0
                           ELSE funds[first].amount
      ]_vars

\* getAmount has returned the amount of the first of two matching entries,
\* which comes after an entry of the same token and another nonce
C25_FirstMatchReturned ==
    /\ dc.last.endpoint = "getAmount"
    /\ dc.last.outcome = "ok"
    /\ dc.last.token = "FEE-123456"
    /\ dc.last.nonce = 0
    /\ dc.last.value = 2
    /\ Len(dc.storage.deposit[dc.last.address].dcdt_funds) = 3

====
